---------------------------- MODULE Spec2Model ----------------------------
(***************************************************************************)
(* Model of openmdao/surrogate_models/kriging.py: KrigingSurrogate         *)
(* (train, _calculate_reduced_likelihood_params, predict, linearize) and   *)
(* FloatKrigingSurrogate.predict.                                          *)
(*                                                                         *)
(* numpy arrays are records [shape, data]: shape is the numpy shape, data  *)
(* the entries in row-major order.  Training data and the normalization    *)
(* statistics are exact numbers (signed square roots of rationals, see     *)
(* Num).  Floating-point results of exp, svd and the products built on     *)
(* them are not computed: the fitted fields are kept as the evaluator      *)
(* applied to its arguments (field `of`), and the arrays a predict call    *)
(* builds carry, per entry, the set of query points the entry is computed  *)
(* from.  Shapes are computed with numpy's rules (broadcasting, dot,       *)
(* transpose), because they decide which calls raise.  The sign of an     *)
(* entry of mse and the rounding of the mean of a constant column are     *)
(* inputs of the calls that compute them.                                  *)
(*                                                                         *)
(* Spec runs every call; TrainSpec runs train alone on wider inputs;       *)
(* EvalSpec runs the evaluator alone over fitted Engines with a scalar or  *)
(* a per-sample nugget.                                                    *)
(***************************************************************************)
EXTENDS Integers, Sequences, FiniteSets, TLC

\* ------------------------------------------------------------ bounds ----
MaxSamples == 2     \* rows of a training input
MaxDims == 1        \* columns of a training input, coordinates of a query point
MaxEval == 2        \* query points in one predict call on a batch
MaxRows == 3        \* most rows of a training input, train calls taken alone

LogThetas == {2}    \* optimizer result per dimension: the upper end of bounds
OptMessage == "Iteration limit exceeded"

\* nugget, in units of MACHINE_EPSILON
NuggetEps == 10

\* ------------------------------------------------------------ numbers ---
\* A number is s * sqrt(p / q): s in {-1,0,1}, p >= 0, q > 0, gcd(p,q) = 1.
RECURSIVE GCD(_, _)
GCD(a, b) == IF b = 0 THEN a ELSE GCD(b, a % b)

Sign(i) == IF i > 0 THEN 1 ELSE IF i < 0 THEN -1 ELSE 0

Num(s, p, q) ==
    IF s = 0 \/ p = 0 THEN [s |-> 0, p |-> 0, q |-> 1]
    ELSE LET g == GCD(p, q) IN [s |-> s, p |-> p \div g, q |-> q \div g]

\* the rational a / b, b > 0
Rat(a, b) == Num(Sign(a), a * a, b * b)
Zero == Rat(0, 1)
One == Rat(1, 1)

RECURSIVE IntPow10(_)
IntPow10(e) == IF e = 0 THEN 1 ELSE 10 * IntPow10(e - 1)
\* 10 ** e
Pow10(e) == IF e >= 0 THEN Rat(IntPow10(e), 1) ELSE Rat(1, IntPow10(-e))

\* a / b for b # 0
NumDiv(a, b) == Num(a.s * b.s, a.p * b.q, a.q * b.p)

\* ------------------------------------------------------------ shapes ----
Err == <<-1>>       \* the shape of an operation that raised
IsErr(s) == s = Err

RECURSIVE SizeOf(_)
SizeOf(s) == IF Len(s) = 0 THEN 1 ELSE Head(s) * SizeOf(Tail(s))

\* np.atleast_2d
AtLeast2dShape(s) ==
    IF Len(s) = 0 THEN <<1, 1>>
    ELSE IF Len(s) = 1 THEN <<1, s[1]>>
    ELSE s

Reverse(s) == [i \in 1..Len(s) |-> s[Len(s) + 1 - i]]
\* ndarray.T
TShape(s) == IF IsErr(s) THEN Err ELSE Reverse(s)

Max2(a, b) == IF a >= b THEN a ELSE b

\* numpy broadcasting of two shapes
BroadcastShape(s, t) ==
    IF IsErr(s) \/ IsErr(t) THEN Err
    ELSE LET n == Max2(Len(s), Len(t))
             ps == [i \in 1..n |-> IF i > n - Len(s) THEN s[i - (n - Len(s))] ELSE 1]
             pt == [i \in 1..n |-> IF i > n - Len(t) THEN t[i - (n - Len(t))] ELSE 1]
         IN IF \A i \in 1..n : ps[i] = pt[i] \/ ps[i] = 1 \/ pt[i] = 1
            THEN [i \in 1..n |-> IF ps[i] = 1 THEN pt[i] ELSE ps[i]]
            ELSE Err

\* np.dot / ndarray.dot for operands of at most two dimensions
DotShape(s, t) ==
    IF IsErr(s) \/ IsErr(t) THEN Err
    ELSE IF Len(s) = 0 THEN t
    ELSE IF Len(t) = 0 THEN s
    ELSE IF Len(s) = 1 /\ Len(t) = 1 THEN (IF s[1] = t[1] THEN <<>> ELSE Err)
    ELSE IF Len(s) = 1 THEN (IF s[1] = t[1] THEN <<t[2]>> ELSE Err)
    ELSE IF Len(t) = 1 THEN (IF s[2] = t[1] THEN <<s[1]>> ELSE Err)
    ELSE IF s[2] = t[1] THEN <<s[1], t[2]>> ELSE Err

\* a[...] = v of shape t into a slice of shape s
CanAssign(s, t) == ~IsErr(t) /\ Len(t) <= Len(s) /\ BroadcastShape(s, t) = s

\* ------------------------------------------------------------ arrays ----
Arr(shape, data) == [shape |-> shape, data |-> data]
\* np.zeros(0)
Zeros0 == Arr(<<0>>, <<>>)

\* a number held as a 0-d array
Scalar(v) == Arr(<<>>, <<v>>)

\* np.atleast_2d keeps the entries
AtLeast2d(a) == [a EXCEPT !.shape = AtLeast2dShape(a.shape)]

\* An input array holds integers, or integers over a common denominator den
\* (data 1, den 10 is 0.1).
Den(x) == IF "den" \in DOMAIN x THEN x.den ELSE 1

Rows(a) == a.shape[1]
Cols(a) == a.shape[2]
At(a, i, j) == a.data[(i - 1) * Cols(a) + j]

RECURSIVE SumTo(_, _)
SumTo(f, n) == IF n = 0 THEN 0 ELSE f[n] + SumTo(f, n - 1)

ISqrt(n) == CHOOSE k \in 0..n : k * k = n

NumMul(a, b) == Num(a.s * b.s, a.p * b.p, a.q * b.q)
NumNeg(a) == [s |-> -a.s, p |-> a.p, q |-> a.q]
\* a - b for commensurable a, b (a = t * b with t rational)
NumSub(a, b) ==
    IF b.s = 0 THEN a
    ELSE IF a.s = 0 THEN NumNeg(b)
    ELSE LET t == NumDiv(a, b)
             tn == t.s * ISqrt(t.p)
             td == ISqrt(t.q)
         IN NumMul(Rat(tn - td, td), b)

\* ------------------------------------------------- normalization (train) -
\* column k of a 2-D integer array
ColSum(x, k) == SumTo([i \in 1..Rows(x) |-> At(x, i, k)], Rows(x))
ColSumSq(x, k) == SumTo([i \in 1..Rows(x) |-> At(x, i, k) * At(x, i, k)], Rows(x))

\* column k holds one value in every row
ConstantColumn(x, k) == \A i \in 1..Rows(x) : At(x, i, k) = At(x, 1, k)

\* The mean is computed in IEEE double: (c + c + .. + c) / n is c for every
\* integer c and for n = 2, but (0.1 + 0.1 + 0.1) / 3 is 0.10000000000000002.
\* <<entry, den, rows>> of the constant columns whose mean is rounded up:
InexactMeans == {<<1, 10, 3>>}
RoundsOff(x, k) ==
    ConstantColumn(x, k) /\ <<At(x, 1, k), Den(x), Rows(x)>> \in InexactMeans
\* stands for that last-place error (1.39e-17 for 0.1): a positive number
\* below every difference of two inputs
RoundOff == Rat(1, 100)

\* np.mean(x, axis=0)
MeanAxis0(x) ==
    Arr(<<Cols(x)>>,
        [k \in 1..Cols(x) |->
            IF RoundsOff(x, k)
            THEN Rat(ColSum(x, k) * 100 + Rows(x) * Den(x), Rows(x) * Den(x) * 100)
            ELSE Rat(ColSum(x, k), Rows(x) * Den(x))])

\* np.std(x, axis=0): sqrt(mean(abs(x - mean(x))**2)), which is
\* sqrt(mean(x**2) - mean(x)**2) where the mean is exact and the error of
\* the mean where every entry misses the mean by it
StdAxis0(x) ==
    Arr(<<Cols(x)>>,
        [k \in 1..Cols(x) |->
            IF RoundsOff(x, k) THEN RoundOff
            ELSE Num(1, Rows(x) * ColSumSq(x, k) - ColSum(x, k) * ColSum(x, k),
                     Rows(x) * Rows(x) * Den(x) * Den(x))])

\* the standard deviations used as computed
ClampStdNone(a) == a
\* a[a == 0.] = 1.
ClampStd(a) == Arr(a.shape, [k \in 1..Len(a.data) |->
                                IF a.data[k] = Zero THEN One ELSE a.data[k]])

\* the integer array as stored (entries as numbers)
AsNum(x) == Arr(x.shape, [k \in 1..Len(x.data) |-> Rat(x.data[k], Den(x))])

\* (x - mean) / std, mean and std of shape (cols,)
Normalized(x, mean, std) ==
    Arr(x.shape,
        [k \in 1..Len(x.data) |->
            LET c == ((k - 1) % Cols(x)) + 1
            IN NumDiv(NumSub(Rat(x.data[k], Den(x)), mean.data[c]), std.data[c])])

\* -------------------------------------------- reduced-likelihood evaluator
\* The fitted quantities are kept as the evaluator applied to its arguments.
Args(th, Xa, Ya, n, d, nug) ==
    [thetas |-> th, X |-> Xa, Y |-> Ya, n_samples |-> n, n_dims |-> d, nugget |-> nug]
NoArgs == Args(Zeros0, Zeros0, Zeros0, 0, 0, Zeros0)

Field(name, shape, a) == [fn |-> name, shape |-> shape, of |-> a]
\* an attribute that no statement has assigned yet
Unset == Field("unset", <<>>, NoArgs)
IsSet(f) == f.fn # "unset"

\* _calculate_reduced_likelihood_params(thetas): params
LikelihoodParams(th, Xa, Ya, n, d, nug) ==
    LET a == Args(th, Xa, Ya, n, d, nug)
        \* R = exp(-thetas.dot(square(distances))), distances (n, d, n)
        RShape == IF th.shape = <<d>> /\ Xa.shape = <<n, d>> THEN <<n, n>> ELSE Err
        one == <<n, 1>>
        RinvShape == DotShape(TShape(RShape), TShape(RShape))
        muShape == BroadcastShape(DotShape(TShape(one), DotShape(RinvShape, Ya.shape)),
                                  DotShape(TShape(one), DotShape(RinvShape, one)))
        resid == BroadcastShape(Ya.shape, BroadcastShape(one, muShape))
        crShape == DotShape(RinvShape, resid)
    IN [mu |-> Field("mu", muShape, a),
        SigmaSqr |-> Field("SigmaSqr", DotShape(TShape(resid), crShape), a),
        S_inv |-> Field("S_inv", IF IsErr(RShape) THEN Err ELSE <<n>>, a),
        U |-> Field("U", RShape, a),
        Vh |-> Field("Vh", RShape, a),
        c_r |-> Field("c_r", crShape, a),
        R_inv |-> Field("R_inv", RinvShape, a)]

\* np.abs
NumAbs(a) == [s |-> IF a.s = 0 THEN 0 ELSE 1, p |-> a.p, q |-> a.q]

\* np.zeros((n_samples, n_dims, n_samples)); w counts the assignments to an entry
ZeroTensor(n, d) == [t \in (1..n) \X (1..d) \X (1..n) |-> [v |-> Zero, w |-> 0]]

\* iteration i of the loop of lines 146-148 (i counted from 1):
\*   distances[i, :, i+1:] = np.abs(X[i, ...] - X[i+1:, ...]).T
\*   distances[i+1:, :, i] = distances[i, :, i+1:].T
\* the loop body without its second statement
FillRowUpper(dist, Xa, i) ==
    [t \in DOMAIN dist |->
        IF t[1] = i /\ t[3] > i
        THEN [v |-> NumAbs(NumSub(At(Xa, i, t[2]), At(Xa, t[3], t[2]))),
              w |-> dist[t].w + 1]
        ELSE dist[t]]

FillRow(dist, Xa, i) ==
    LET upper == [t \in DOMAIN dist |->
                    IF t[1] = i /\ t[3] > i
                    THEN [v |-> NumAbs(NumSub(At(Xa, i, t[2]), At(Xa, t[3], t[2]))),
                          w |-> dist[t].w + 1]
                    ELSE dist[t]]
    IN [t \in DOMAIN dist |->
          IF t[3] = i /\ t[1] > i
          THEN [v |-> upper[<<i, t[2], t[1]>>].v, w |-> upper[t].w + 1]
          ELSE upper[t]]

RECURSIVE FillRows(_, _, _, _)
FillRows(dist, Xa, i, n) ==
    IF i > n THEN dist ELSE FillRows(FillRow(dist, Xa, i), Xa, i + 1, n)

\* distances after lines 145-148
Distances(Xa, n, d) == FillRows(ZeroTensor(n, d), Xa, 1, n)

\* the nugget added to diagonal entry i: a scalar, or entry i of a vector
NuggetAt(nug, i) == IF nug.shape = <<>> THEN nug.data[1] ELSE nug.data[i]

\* R[np.diag_indices_from(R)] = 1. + self.nugget can be assigned
NuggetFits(nug, n) == nug.shape \in {<<>>, <<1>>, <<n>>}

\* R after lines 150-151.  Entry (i, j) is exp(-sum_k arg[k]) with
\* arg[k] = thetas[k] * distances[i, k, j]**2, the diagonal then being
\* overwritten with 1 + nugget (plus, in units of MACHINE_EPSILON).
CorrelationMatrix(th, dist, n, d, nug) ==
    [t \in (1..n) \X (1..n) |->
        LET e == [k \in 1..d |-> NumMul(th.data[k],
                                        NumMul(dist[<<t[1], k, t[2]>>].v,
                                               dist[<<t[1], k, t[2]>>].v))]
        IN IF t[1] = t[2]
           THEN [diag |-> TRUE, arg |-> [k \in 1..d |-> Zero],
                 plus |-> NuggetAt(IF nug.shape = <<1>> THEN Scalar(nug.data[1]) ELSE nug,
                                   t[1])]
           ELSE [diag |-> FALSE, arg |-> e, plus |-> 0]]

\* ------------------------------------------------------------- state ----
VARIABLES
    running,        \* the interpreter has not exited
    trained,        \* SurrogateModel.trained
    n_samples, n_dims, thetas, nugget,
    X, Y, X_mean, X_std, Y_mean, Y_std,
    c_r, U, S_inv, Vh, mu, SigmaSqr, R_inv,
    everFitted,     \* history: some train call got through line 121
    lastCall        \* the last call and what it gave its caller

dataVars == <<X, Y, X_mean, X_std, Y_mean, Y_std>>
fitVars == <<c_r, U, S_inv, Vh, mu, SigmaSqr, R_inv>>
vars == <<running, trained, n_samples, n_dims, thetas, nugget, dataVars, fitVars,
          everFitted, lastCall>>

\* fields __init__ sets that no other statement assigns
alpha == Zeros0

NoMsg == [text |-> "", detail |-> ""]
NoOut == Arr(<<0>>, <<>>)
\* what minimize reported to the call, if the call got as far as calling it
NoSearch == [started |-> FALSE, success |-> FALSE, message |-> ""]
Searched(opt) == [started |-> TRUE, success |-> opt.success, message |-> opt.message]
\* what a caller observes of a call: its arguments, how it ended, what it returned;
\* flag is the boolean argument: normalize of train, eval_rmse of predict,
\* "thetas is None" of the evaluator
Call(op, xshape, flag, result, msg, search, y, rmse) ==
    [op |-> op, xshape |-> xshape, flag |-> flag,
     result |-> result, msg |-> msg, search |-> search, y |-> y, rmse |-> rmse]

Init ==
    /\ running = TRUE
    /\ trained = FALSE
    /\ n_dims = 0
    /\ n_samples = 0
    /\ thetas = Zeros0
    /\ nugget = Scalar(NuggetEps)
    /\ X = Zeros0 /\ Y = Zeros0
    /\ X_mean = Zeros0 /\ X_std = Zeros0
    /\ Y_mean = Zeros0 /\ Y_std = Zeros0
    /\ c_r = Unset /\ U = Unset /\ S_inv = Unset /\ Vh = Unset
    /\ mu = Unset /\ SigmaSqr = Unset /\ R_inv = Unset
    /\ everFitted = FALSE
    /\ lastCall = Call("init", <<>>, FALSE, "ok", NoMsg, NoSearch, NoOut, NoOut)

\* ------------------------------------------------------------- inputs ---
\* shapes of the x argument of train: a scalar, a flat sequence of 1 or of
\* MaxSamples scalars, a 2-D array of 0, 1 or MaxSamples rows of MaxDims columns
TrainShapes ==
    {<<>>} \cup {<<k>> : k \in {1, MaxSamples}}
           \cup {<<n, MaxDims>> : n \in {0, 1, MaxSamples}}

\* entries of x: the columns are all constant (5, 5, ..) or all ramps (0, 5, 10, ..)
XEntry(kind, i) == IF kind = "const" THEN 5 ELSE 5 * (i - 1)
XInput(s, kind) ==
    Arr(s, [e \in 1..SizeOf(s) |-> XEntry(kind, ((e - 1) \div AtLeast2dShape(s)[2]) + 1)])
\* the y argument: one output per row of x, constant or the squares 0, 1, 4..
YEntry(kind, i) == IF kind = "const" THEN 1 ELSE (i - 1) * (i - 1)
YInput(n, kind) == Arr(<<n, 1>>, [i \in 1..n |-> YEntry(kind, i)])

\* (x kind, y kind): the quadratic, the constant output, the repeated point
DataKinds == {<<"ramp", "quad">>, <<"ramp", "const">>, <<"const", "quad">>}

\* inputs with the constant 0.1: every entry 1 over the denominator 10
Tenths(s) == [shape |-> s, data |-> [e \in 1..SizeOf(s) |-> 1], den |-> 10]
WideX(s, kind) == IF kind = "tenth" THEN Tenths(s) ELSE XInput(s, kind)
WideY(n, kind) == IF kind = "tenth" THEN Tenths(<<n, 1>>) ELSE YInput(n, kind)
WideKinds == {<<"ramp", "quad">>, <<"tenth", "quad">>, <<"ramp", "tenth">>,
              <<"const", "const">>}

\* what scipy.optimize.minimize returns for d unknowns
OptFailure(d) ==
    [success |-> FALSE, message |-> OptMessage, x |-> [k \in 1..d |-> -3]]
OptResults(d) ==
    {[success |-> TRUE, message |-> "Optimization terminated successfully.",
      x |-> [k \in 1..d |-> v]] : v \in LogThetas}
    \cup {OptFailure(d)}

\* -------------------------------------------------------------- train ---
\* SurrogateModel.train(x, y)
BaseTrain == TRUE

\* the check of line 69 letting a single sample through
TooFewSamplesNone(n) == n < 1
\* if self.n_samples <= 1: raise
TooFewSamples(n) == n <= 1

InsufficientMsg ==
    [text |-> "KrigingSurrogate require at least 2 training points.", detail |-> ""]
\* 'Kriging Hyper-parameter optimization failed: {0}'.format(optResult.message)
OptFailedMsg(opt) ==
    [text |-> "Kriging Hyper-parameter optimization failed: ", detail |-> opt.message]

\* thetas assigned from the optimizer's result before its success is tested
StoredThetasEarly(old, opt) ==
    Arr(<<Len(opt.x)>>, [k \in 1..Len(opt.x) |-> Pow10(opt.x[k])])
\* self.thetas after lines 105-112
StoredThetas(old, opt) ==
    IF opt.success
    THEN Arr(<<Len(opt.x)>>, [k \in 1..Len(opt.x) |-> Pow10(opt.x[k])])
    ELSE old

\* a fitted attribute after lines 105-121
StoredField(old, new, opt) == IF opt.success THEN new ELSE old

\* exit() raises SystemExit; the interpreter ends unless a caller catches it
Train(x, y, normalize, opt, caught) ==
    /\ running
    /\ \E x2 \in {AtLeast2d(x)}, y2 \in {AtLeast2d(y)} :
       \E n \in {Rows(x2)}, d \in {Cols(x2)} :
          /\ trained' = BaseTrain
          /\ n_samples' = n
          /\ n_dims' = d
          /\ nugget' = nugget
          /\ IF TooFewSamples(n)
             THEN /\ UNCHANGED <<running, thetas, dataVars, fitVars, everFitted>>
                  /\ lastCall' = Call("train", x.shape, normalize, "ValueError",
                                      InsufficientMsg, NoSearch, NoOut, NoOut)
             ELSE \E xm \in {MeanAxis0(x2)}, xs \in {ClampStd(StdAxis0(x2))},
                     ym \in {MeanAxis0(y2)}, ys \in {ClampStd(StdAxis0(y2))} :
                  \E Xn \in {IF normalize THEN Normalized(x2, xm, xs) ELSE AsNum(x2)},
                     Yn \in {IF normalize THEN Normalized(y2, ym, ys) ELSE AsNum(y2)},
                     th \in {StoredThetas(thetas, opt)} :
                  \E params \in {LikelihoodParams(th, Xn, Yn, n, d, nugget)} :
                     /\ X' = Xn /\ Y' = Yn
                     /\ X_mean' = xm /\ X_std' = xs
                     /\ Y_mean' = ym /\ Y_std' = ys
                     /\ thetas' = th
                     /\ c_r' = StoredField(c_r, params.c_r, opt)
                     /\ U' = StoredField(U, params.U, opt)
                     /\ S_inv' = StoredField(S_inv, params.S_inv, opt)
                     /\ Vh' = StoredField(Vh, params.Vh, opt)
                     /\ mu' = StoredField(mu, params.mu, opt)
                     /\ SigmaSqr' = StoredField(SigmaSqr, params.SigmaSqr, opt)
                     /\ R_inv' = StoredField(R_inv, params.R_inv, opt)
                     /\ everFitted' = (everFitted \/ opt.success)
                     /\ IF opt.success
                        THEN /\ running' = caught
                             /\ lastCall' = Call("train", x.shape, normalize,
                                                 "SystemExit", NoMsg, Searched(opt), NoOut,
                                                 NoOut)
                        ELSE /\ running' = running
                             /\ lastCall' = Call("train", x.shape, normalize,
                                                 "ValueError", OptFailedMsg(opt),
                                                 Searched(opt), NoOut, NoOut)

\* A call whose x has fewer than two rows reads nothing but the shape of x, so
\* one choice of its other arguments is listed.
TrainStep ==
    \E s \in TrainShapes :
        \E kinds \in (IF AtLeast2dShape(s)[1] < 2 THEN {<<"ramp", "quad">>} ELSE DataKinds),
           normalize \in (IF AtLeast2dShape(s)[1] < 2 THEN {TRUE} ELSE BOOLEAN),
           opt \in (IF AtLeast2dShape(s)[1] < 2 THEN {OptFailure(AtLeast2dShape(s)[2])}
                    ELSE OptResults(AtLeast2dShape(s)[2])) :
        \E caught \in (IF opt.success THEN BOOLEAN ELSE {FALSE}) :
            Train(XInput(s, kinds[1]), YInput(AtLeast2dShape(s)[1], kinds[2]),
                  normalize, opt, caught)

\* train calls on 1, MaxRows - 1 and MaxRows samples, on the constant 0.1 among others
TrainWideStep ==
    \E n \in {1, MaxRows - 1, MaxRows}, d \in {MaxDims} :
        \E kinds \in (IF n < 2 THEN {<<"ramp", "quad">>} ELSE WideKinds),
           normalize \in (IF n < 2 THEN {TRUE} ELSE BOOLEAN),
           opt \in (IF n < 2 THEN {OptFailure(d)} ELSE OptResults(d)) :
        \E caught \in (IF opt.success THEN BOOLEAN ELSE {FALSE}) :
            Train(WideX(<<n, d>>, kinds[1]), WideY(n, kinds[2]), normalize, opt, caught)

\* ------------------------------------------- arrays built by predict ----
\* An entry of these 2-D arrays is the set of query points it is computed from.
Bad == Arr(Err, <<>>)
\* an array whose entries come from stored fields only
Const(shape) ==
    IF IsErr(shape) \/ Len(shape) # 2 THEN Bad
    ELSE Arr(shape, [e \in 1..SizeOf(shape) |-> {}])

\* a.T
Transpose(a) ==
    IF IsErr(a.shape) THEN Bad
    ELSE Arr(<<Cols(a), Rows(a)>>,
             [e \in 1..SizeOf(a.shape) |->
                 At(a, ((e - 1) % Rows(a)) + 1, ((e - 1) \div Rows(a)) + 1)])

\* np.dot(a, b)
Dot(a, b) ==
    LET s == DotShape(a.shape, b.shape)
    IN IF IsErr(s) THEN Bad
       ELSE Arr(s, [e \in 1..SizeOf(s) |->
                LET i == ((e - 1) \div s[2]) + 1
                    j == ((e - 1) % s[2]) + 1
                IN UNION {At(a, i, t) \cup At(b, t, j) : t \in 1..Cols(a)}])

\* a (+ - * /) b, elementwise with broadcasting
Elementwise(a, b) ==
    LET s == BroadcastShape(a.shape, b.shape)
    IN IF IsErr(s) THEN Bad
       ELSE Arr(s, [e \in 1..SizeOf(s) |->
                LET i == ((e - 1) \div s[2]) + 1
                    j == ((e - 1) % s[2]) + 1
                IN At(a, IF Rows(a) = 1 THEN 1 ELSE i, IF Cols(a) = 1 THEN 1 ELSE j)
                   \cup At(b, IF Rows(b) = 1 THEN 1 ELSE i, IF Cols(b) = 1 THEN 1 ELSE j)])

\* ------------------------------------------------------------ predict ---
\* SurrogateModel.predict(x): raises unless trained
BasePredictRaises == ~trained

UntrainedMsg == [text |-> "has not been trained, so no prediction can be made.",
                 detail |-> ""]
ShapeMsg == [text |-> "operands could not be broadcast together / shapes not aligned",
             detail |-> ""]
AttributeMsg == [text |-> "'KrigingSurrogate' object has no attribute", detail |-> ""]

Outcome(result, msg, y, rmse) == [result |-> result, msg |-> msg, y |-> y, rmse |-> rmse]

\* x_n of predict, lines 218-222
PredictXn(x2shape, normalize) ==
    IF normalize
    THEN BroadcastShape(BroadcastShape(x2shape, X_mean.shape), X_std.shape)
    ELSE x2shape

\* the shape of exp(-thetas.dot(np.square((x_i - X).T))) for a row x_i of x_n
CorrShape(rowShape) ==
    DotShape(thetas.shape, TShape(BroadcastShape(rowShape, X.shape)))

\* r after lines 224-235; pts[i] names the query point of row i
PredictR(pts, xn) ==
    LET r == Arr(<<Len(pts), n_samples>>,
                 [e \in 1..(Len(pts) * n_samples) |-> {pts[((e - 1) \div n_samples) + 1]}])
    IN IF IsErr(xn) \/ ~CanAssign(<<n_samples>>, CorrShape(<<xn[2]>>)) THEN Bad
       ELSE IF r.shape[2] > 1 THEN Transpose(r)
       ELSE r

\* mse of lines 242-244 (the clamp and the square root keep shape and origin)
PredictMse(r) ==
    LET one == Const(<<n_samples, 1>>)
        Rinv == Const(R_inv.shape)
        rRr == Dot(Transpose(r), Dot(Rinv, r))
        oneRr == Dot(Transpose(one), Dot(Rinv, r))
        oneRone == Dot(Transpose(one), Dot(Rinv, one))
    IN Elementwise(Const(SigmaSqr.shape),
                   Elementwise(rRr, Elementwise(oneRr, oneRone)))

\* the stored outputs the fitted field f was computed from are all zero
ZeroOutputs(f) ==
    /\ Len(f.of.Y.data) > 0
    /\ \A k \in 1..Len(f.of.Y.data) : f.of.Y.data[k] = Zero

\* the value of every entry of y = self.mu + np.dot(r.T, self.c_r), line 238.
\* Over outputs that are all zero, mu = 0 / (1'R_inv 1) and c_r = R_inv (0 - 0)
\* (lines 181-182) are zero, and so is y; otherwise the value is not computed.
MeanValue ==
    IF ZeroOutputs(mu) /\ ZeroOutputs(c_r)
    THEN [exact |-> TRUE, num |-> Zero]
    ELSE [exact |-> FALSE, num |-> Zero]

\* y with the value of its entries
WithValue(y, v) == [shape |-> y.shape, data |-> y.data, val |-> v]

\* KrigingSurrogate.predict(x, eval_rmse, normalize), x of shape xshape
PredictOutcome(pts, xshape, eval_rmse, normalize) ==
    IF BasePredictRaises THEN Outcome("RuntimeError", UntrainedMsg, NoOut, NoOut)
    ELSE LET r == PredictR(pts, PredictXn(AtLeast2dShape(xshape), normalize))
         IN IF IsErr(r.shape) THEN Outcome("ValueError", ShapeMsg, NoOut, NoOut)
            ELSE IF ~IsSet(mu) \/ ~IsSet(c_r) THEN Outcome("AttributeError", AttributeMsg, NoOut, NoOut)
            ELSE LET y == Elementwise(Const(mu.shape), Dot(Transpose(r), Const(c_r.shape)))
                 IN IF IsErr(y.shape) THEN Outcome("ValueError", ShapeMsg, NoOut, NoOut)
                    ELSE IF ~eval_rmse
                         THEN Outcome("ok", NoMsg, WithValue(y, MeanValue), NoOut)
                    ELSE LET mse == PredictMse(r)
                         IN IF IsErr(mse.shape)
                            THEN Outcome("ValueError", ShapeMsg, NoOut, NoOut)
                            ELSE Outcome("ok", NoMsg, WithValue(y, MeanValue), mse)

\* shapes of the x argument of predict: one flat point of 1 or of MaxDims
\* coordinates, or a batch of MaxEval points
QueryShapes == {<<k>> : k \in {1, MaxDims}} \cup {<<MaxEval, MaxDims>>}
Points(xshape) == [i \in 1..AtLeast2dShape(xshape)[1] |-> i]

\* What floating point gave for the entries of mse at lines 243-244: all
\* positive, all zero, or negative (round-off) at the odd entries.  A SigmaSqr
\* computed over outputs that are all zero is zero, and so is mse.
MsePatterns == IF ZeroOutputs(SigmaSqr) THEN {"zero"} ELSE {"pos", "zero", "mixed"}
RawMse(pattern, e) ==
    IF pattern = "zero" THEN 0
    ELSE IF pattern = "mixed" /\ e % 2 = 1 THEN -1
    ELSE 4

\* the clamp left out
ClampMseNone(v) == v
\* mse[mse < 0.] = 0.
ClampMse(v) == IF v < 0 THEN 0 ELSE v

NaN == [s |-> 0, p |-> 0, q |-> 0]
\* np.sqrt
SqrtOf(v) == IF v < 0 THEN NaN ELSE Num(1, v, 1)

\* np.sqrt(mse) of line 247, with the entries of mse before the clamp
RmseValues(rmse, pattern) ==
    [shape |-> rmse.shape, data |-> rmse.data,
     raw |-> [e \in 1..Len(rmse.data) |-> RawMse(pattern, e)],
     val |-> [e \in 1..Len(rmse.data) |-> SqrtOf(ClampMse(RawMse(pattern, e)))]]

Predict(xshape, eval_rmse, normalize, pattern) ==
    /\ running
    /\ \E o \in {PredictOutcome(Points(xshape), xshape, eval_rmse, normalize)} :
          lastCall' = Call("predict", xshape, eval_rmse, o.result, o.msg,
                           NoSearch, o.y,
                           IF o.result = "ok" /\ eval_rmse
                           THEN RmseValues(o.rmse, pattern) ELSE o.rmse)
    /\ UNCHANGED <<running, trained, n_samples, n_dims, thetas, nugget, dataVars,
                   fitVars, everFitted>>

\* mse is computed only with eval_rmse, after every read of a fitted field
PredictStep ==
    \E xshape \in QueryShapes, eval_rmse \in BOOLEAN, normalize \in BOOLEAN :
        \E pattern \in (IF eval_rmse /\ IsSet(SigmaSqr) THEN MsePatterns ELSE {"zero"}) :
            Predict(xshape, eval_rmse, normalize, pattern)

\* dist[0]
FirstRow(a) ==
    IF Len(a.shape) = 2
    THEN WithValue(Arr(<<a.shape[2]>>, [e \in 1..a.shape[2] |-> a.data[e]]), a.val)
    ELSE a

\* FloatKrigingSurrogate.predict(x)
FloatPredictOutcome(pts, xshape) ==
    LET dist == PredictOutcome(pts, xshape, FALSE, TRUE)
    IN IF dist.result = "ok"
       THEN Outcome("ok", NoMsg, FirstRow(dist.y), NoOut)
       ELSE dist

FloatPredict(xshape) ==
    /\ running
    /\ \E o \in {FloatPredictOutcome(Points(xshape), xshape)} :
          lastCall' = Call("float_predict", xshape, FALSE, o.result, o.msg,
                           NoSearch, o.y, o.rmse)
    /\ UNCHANGED <<running, trained, n_samples, n_dims, thetas, nugget, dataVars,
                   fitVars, everFitted>>

FloatPredictStep == \E xshape \in QueryShapes : FloatPredict(xshape)

\* ---------------------------------------------------------- linearize ---
\* np.einsum('i,ij->ij', a, b)
EinsumRows(s, t) ==
    IF IsErr(s) \/ IsErr(t) \/ Len(s) # 1 \/ Len(t) # 2 THEN Err
    ELSE IF s[1] = t[1] \/ s[1] = 1 THEN t
    ELSE IF t[1] = 1 THEN <<s[1], t[2]>>
    ELSE Err

\* np.einsum('i,j,ij->ij', a, b, c)
EinsumOuter(s, t, u) ==
    IF IsErr(s) \/ IsErr(t) \/ IsErr(u) \/ Len(s) # 1 \/ Len(t) # 1 \/ Len(u) # 2 THEN Err
    ELSE BroadcastShape(<<s[1], t[1]>>, u)

\* the vector linearize multiplies gradr with, line 272
LinearizeWeights == alpha

\* KrigingSurrogate.linearize(x), x of shape xshape; the shape of jac
LinearizeShape(xshape) ==
    LET x_n == BroadcastShape(BroadcastShape(xshape, X_mean.shape), X_std.shape)
        diffT == TShape(BroadcastShape(x_n, X.shape))
        r == DotShape(thetas.shape, diffT)
        gradr == BroadcastShape(r, EinsumRows(thetas.shape, diffT))
    IN EinsumOuter(Y_std.shape, X_std.shape,
                   TShape(DotShape(gradr, LinearizeWeights.shape)))

LinearizeOutcome(xshape) ==
    LET jac == LinearizeShape(xshape)
    IN IF IsErr(jac) THEN Outcome("ValueError", ShapeMsg, NoOut, NoOut)
       ELSE Outcome("ok", NoMsg, Arr(jac, [e \in 1..SizeOf(jac) |-> {1}]), NoOut)

Linearize(xshape) ==
    /\ running
    /\ \E o \in {LinearizeOutcome(xshape)} :
          lastCall' = Call("linearize", xshape, FALSE, o.result, o.msg, NoSearch, o.y,
                           o.rmse)
    /\ UNCHANGED <<running, trained, n_samples, n_dims, thetas, nugget, dataVars,
                   fitVars, everFitted>>

LinearizeStep == \E k \in 1..MaxDims : Linearize(<<k>>)

\* ----------------------------------- _calculate_reduced_likelihood_params
\* the thetas argument: None (the stored thetas) or 10**x0 of the first trial
\* of minimize, x0 = -3 + 0.5 * 5 per dimension
TrialThetas(stored) ==
    IF stored THEN thetas
    ELSE Arr(<<n_dims>>, [k \in 1..n_dims |-> Num(1, 1, 10)])

EvaluatorMsg == [text |-> "IndexError or ValueError raised by numpy", detail |-> ""]

\* self._calculate_reduced_likelihood_params(thetas): what it computed (the
\* locals distances and R) and the params it returned
EvaluateOutcome(th) ==
    LET p == LikelihoodParams(th, X, Y, n_samples, n_dims, nugget)
    IN IF IsErr(p.c_r.shape) \/ IsErr(p.SigmaSqr.shape) \/ IsErr(p.mu.shape)
          \/ ~NuggetFits(nugget, n_samples)
       THEN Outcome("Error", EvaluatorMsg, NoOut, NoOut)
       ELSE LET dist == Distances(X, n_samples, n_dims)
            IN Outcome("ok", NoMsg,
                       [distances |-> dist,
                        R |-> CorrelationMatrix(th, dist, n_samples, n_dims, nugget),
                        params |-> p],
                       NoOut)

\* the evaluator keeping the thetas it was called with (self.thetas = thetas)
EvaluateStoringThetas(stored) ==
    /\ running
    /\ \E o \in {EvaluateOutcome(TrialThetas(stored))} :
          lastCall' = Call("evaluate", <<>>, stored, o.result, o.msg, NoSearch, o.y,
                           o.rmse)
    /\ thetas' = TrialThetas(stored)
    /\ UNCHANGED <<running, trained, n_samples, n_dims, nugget, dataVars,
                   fitVars, everFitted>>

Evaluate(stored) ==
    /\ running
    /\ \E o \in {EvaluateOutcome(TrialThetas(stored))} :
          lastCall' = Call("evaluate", <<>>, stored, o.result, o.msg, NoSearch, o.y,
                           o.rmse)
    /\ UNCHANGED <<running, trained, n_samples, n_dims, thetas, nugget, dataVars,
                   fitVars, everFitted>>

EvaluateStep == \E stored \in BOOLEAN : Evaluate(stored)

Next == TrainStep \/ PredictStep \/ FloatPredictStep \/ LinearizeStep \/ EvaluateStep

Spec == Init /\ [][Next]_vars

\* train calls alone, on the wider inputs
TrainSpec == Init /\ [][TrainWideStep]_vars

\* a per-sample nugget, one value for each of n samples
NuggetVector(n) == Arr(<<n>>, [i \in 1..n |-> NuggetEps * i])

\* The Engine after __init__(nugget=nug) and one train(x, y, normalize) whose
\* search succeeded, the SystemExit of line 127 caught: the fields as lines
\* 63-121 leave them.
Fitted(x, y, normalize, opt, nug) ==
    LET x2 == AtLeast2d(x)
        y2 == AtLeast2d(y)
        xm == MeanAxis0(x2)
        xs == ClampStd(StdAxis0(x2))
        ym == MeanAxis0(y2)
        ys == ClampStd(StdAxis0(y2))
        Xn == IF normalize THEN Normalized(x2, xm, xs) ELSE AsNum(x2)
        Yn == IF normalize THEN Normalized(y2, ym, ys) ELSE AsNum(y2)
        th == StoredThetas(Zeros0, opt)
        params == LikelihoodParams(th, Xn, Yn, Rows(x2), Cols(x2), nug)
    IN /\ running = TRUE
       /\ trained = BaseTrain
       /\ n_samples = Rows(x2) /\ n_dims = Cols(x2)
       /\ nugget = nug
       /\ X = Xn /\ Y = Yn
       /\ X_mean = xm /\ X_std = xs
       /\ Y_mean = ym /\ Y_std = ys
       /\ thetas = th
       /\ c_r = params.c_r /\ U = params.U /\ S_inv = params.S_inv /\ Vh = params.Vh
       /\ mu = params.mu /\ SigmaSqr = params.SigmaSqr /\ R_inv = params.R_inv
       /\ everFitted = TRUE
       /\ lastCall = Call("train", x.shape, normalize, "SystemExit", NoMsg,
                          Searched(opt), NoOut, NoOut)

EvalKinds == WideKinds \cup DataKinds

\* fitted Engines with a scalar or a per-sample nugget
EvalInit ==
    \E n \in 2..MaxRows, d \in 1..MaxDims, kinds \in EvalKinds, normalize \in BOOLEAN,
       vector \in BOOLEAN :
        \E opt \in {o \in OptResults(d) : o.success} :
            Fitted(WideX(<<n, d>>, kinds[1]), WideY(n, kinds[2]), normalize, opt,
                   IF vector THEN NuggetVector(n) ELSE Scalar(NuggetEps))

\* the evaluator alone, over the fitted Engines
EvalSpec == EvalInit /\ [][EvaluateStep]_vars

\* ============================================================ claims ====
\* rows of the training input once it is laid out as samples x dimensions:
\* a scalar and a flat sequence are one sample
SampleRows(xshape) == IF Len(xshape) = 2 THEN xshape[1] ELSE 1

engine == <<n_samples, n_dims, thetas, dataVars, fitVars>>

\* C1: a train call whose hyperparameter optimization reports success returns
\* normally to its caller: it raises nothing and the interpreter keeps running.
C1_TrainSuccessReturns ==
    (lastCall.op = "train" /\ lastCall.search.started /\ lastCall.search.success)
        => (lastCall.result = "ok" /\ running)

\* C2: train raises the at-least-2-training-points ValueError exactly when the
\* input has fewer than two rows (a scalar or a flat sequence being one row),
\* and then minimize is never called.
C2_InsufficientIffFewRows ==
    lastCall.op = "train" =>
        /\ (lastCall.result = "ValueError" /\ lastCall.msg = InsufficientMsg)
               <=> (SampleRows(lastCall.xshape) < 2)
        /\ (SampleRows(lastCall.xshape) < 2) => ~lastCall.search.started

\* a flat sequence of two scalars was refused as a single sample of dimension 2
C2_Witness ==
    /\ lastCall.op = "train" /\ lastCall.xshape = <<2>>
    /\ lastCall.result = "ValueError" /\ lastCall.msg = InsufficientMsg
    /\ n_samples = 1 /\ n_dims = 2

\* C3: a train call that fails leaves every stored field as it was before the
\* call, or leaves the Engine untrained (predict raises the untrained error).
C3_TrainAllOrNothing ==
    [][(lastCall'.op = "train" /\ lastCall'.result = "ValueError")
          => (engine' = engine \/ BasePredictRaises')]_vars

\* C4: predict raises the untrained error whenever no train call has stored a
\* fit, whether train was never called or every call failed.
C4_PredictUntrainedRaises ==
    (lastCall.op = "predict" /\ ~everFitted)
        => (lastCall.result = "RuntimeError" /\ lastCall.msg = UntrainedMsg)

\* C5: linearize raises the untrained error whenever no train call has stored
\* a fit.
C5_LinearizeUntrainedRaises ==
    (lastCall.op = "linearize" /\ ~everFitted)
        => (lastCall.result = "RuntimeError" /\ lastCall.msg = UntrainedMsg)

\* C6: once a train call has stored a fit, the stored c_r, mu, SigmaSqr, R_inv,
\* U, S_inv and Vh are what the evaluator gives at the stored thetas over the
\* stored X, Y, n_samples, n_dims and nugget, and n_samples is the number of
\* rows of X and of c_r.
C6_FitMatchesStoredData ==
    everFitted =>
        /\ LET p == LikelihoodParams(thetas, X, Y, n_samples, n_dims, nugget)
           IN /\ c_r = p.c_r /\ mu = p.mu /\ SigmaSqr = p.SigmaSqr /\ R_inv = p.R_inv
              /\ U = p.U /\ S_inv = p.S_inv /\ Vh = p.Vh
        /\ n_samples = X.shape[1]
        /\ n_samples = c_r.shape[1]

\* C7: when minimize reports no success, train raises the ValueError that names
\* the hyperparameter optimization and carries minimize's message, and thetas
\* and the fitted fields are as before the call.
C7_OptFailureKeepsFit ==
    [][(lastCall'.op = "train" /\ lastCall'.search.started /\ ~lastCall'.search.success)
          => /\ lastCall'.result = "ValueError"
             /\ lastCall'.msg.text = "Kriging Hyper-parameter optimization failed: "
             /\ lastCall'.msg.detail = lastCall'.search.message
             /\ lastCall'.msg.detail # ""
             /\ thetas' = thetas
             /\ fitVars' = fitVars]_vars

\* a failed optimization came after a stored fit, which is still there
C7_Witness ==
    /\ lastCall.op = "train" /\ lastCall.search.started /\ ~lastCall.search.success
    /\ lastCall.result = "ValueError"
    /\ everFitted /\ IsSet(c_r) /\ thetas # Zeros0

\* the Engine is as a fit left it, and the query is a point of its dimension
FittedFor(xshape) ==
    /\ everFitted
    /\ c_r.of = Args(thetas, X, Y, n_samples, n_dims, nugget)
    /\ xshape = <<n_dims>>

\* C8: on a trained Engine linearize returns the Jacobian, one row per output
\* and one column per input dimension, computed with c_r.
C8_LinearizeUsesCr ==
    (lastCall.op = "linearize" /\ FittedFor(lastCall.xshape))
        => /\ lastCall.result = "ok"
           /\ lastCall.y.shape = <<Y.shape[2], n_dims>>
           /\ LinearizeWeights.shape = c_r.shape

\* C9: predict with eval_rmse returns one mean and one standard deviation per
\* query point, those of point k being what predict returns for point k alone.
C9_OneRmsePerPoint ==
    (lastCall.op = "predict" /\ lastCall.flag /\ lastCall.result = "ok")
        => LET q == AtLeast2dShape(lastCall.xshape)[1]
               d == AtLeast2dShape(lastCall.xshape)[2]
           IN /\ SizeOf(lastCall.y.shape) = q
              /\ SizeOf(lastCall.rmse.shape) = q
              /\ \A k \in 1..q :
                    LET alone == PredictOutcome(<<k>>, <<d>>, TRUE, TRUE)
                    IN alone.result = "ok" =>
                          /\ lastCall.y.data[k] = alone.y.data[1]
                          /\ lastCall.rmse.data[k] = alone.rmse.data[1]

\* C10: FloatKrigingSurrogate.predict(x) returns the means that
\* KrigingSurrogate.predict(x, eval_rmse=False) returns, all of them, and no
\* uncertainty.
C10_FloatPredictSameMeans ==
    lastCall.op = "float_predict"
        => LET full == PredictOutcome(Points(lastCall.xshape), lastCall.xshape, FALSE, TRUE)
           IN /\ lastCall.result = full.result
              /\ lastCall.y.data = full.y.data
              /\ lastCall.rmse = NoOut

\* the Engine holds a fit of inputs [[0],[5]], outputs [[1],[1]], normalize=True
FittedOnConstant ==
    /\ everFitted
    /\ mu.of = Args(thetas, X, Y, n_samples, n_dims, nugget)
    /\ c_r.of = mu.of
    /\ X_mean.data = <<Rat(5, 2)>> /\ X_std.data = <<Rat(5, 2)>>
    /\ X.data = <<Rat(-1, 1), Rat(1, 1)>>
    /\ Y_mean.data = <<One>>
    /\ Y.shape = <<2, 1>>

\* C11: training on [[0],[5]] with outputs [[1],[1]] and normalize=True stores
\* the output standard deviation as 1 and the outputs as zeros (no undefined
\* value), and every mean predict then returns is 1, the training output.
C11_ConstantOutputsPredictOne ==
    FittedOnConstant =>
        /\ Y_std.data = <<One>>
        /\ Y.data = <<Zero, Zero>>
        /\ (lastCall.op = "predict" /\ lastCall.result = "ok")
               => lastCall.y.val = [exact |-> TRUE, num |-> One]

\* C12: no predict, linearize or evaluator call changes a stored field
\* (n_samples, n_dims, X, Y, the statistics, nugget, thetas, the fitted
\* fields), and a train call whose search fails, having run the evaluator on
\* trial thetas only, leaves thetas and the fitted fields as they were.
C12_ReadOnlyCalls ==
    [][/\ (lastCall'.op \in {"predict", "float_predict", "linearize", "evaluate"})
             => (engine' = engine /\ nugget' = nugget)
       /\ (lastCall'.op = "train" /\ lastCall'.search.started
              /\ ~lastCall'.search.success)
             => (thetas' = thetas /\ fitVars' = fitVars)]_vars

\* the evaluator ran on trial thetas over a fitted Engine whose thetas differ
C12_Witness ==
    /\ lastCall.op = "evaluate" /\ lastCall.result = "ok" /\ ~lastCall.flag
    /\ everFitted
    /\ thetas # TrialThetas(FALSE)
    /\ lastCall.y.params.c_r.of.thetas = TrialThetas(FALSE)

\* C13: every standard deviation predict returns with eval_rmse is
\* non-negative: an entry of mse below zero is returned as 0, an entry that is
\* zero or positive as its square root.
C13_RmseNonNegative ==
    (lastCall.op = "predict" /\ lastCall.flag /\ lastCall.result = "ok")
        => \A e \in 1..Len(lastCall.rmse.val) :
              /\ lastCall.rmse.val[e] # NaN
              /\ lastCall.rmse.val[e].s >= 0
              /\ lastCall.rmse.raw[e] < 0 => lastCall.rmse.val[e] = Zero
              /\ lastCall.rmse.raw[e] >= 0
                    => lastCall.rmse.val[e] = Num(1, lastCall.rmse.raw[e], 1)

\* a batch whose mse had a negative and a positive entry came back as 0 and 2
C13_Witness ==
    /\ lastCall.op = "predict" /\ lastCall.flag /\ lastCall.result = "ok"
    /\ everFitted
    /\ Len(lastCall.rmse.val) >= 2
    /\ lastCall.rmse.raw[1] < 0 /\ lastCall.rmse.val[1] = Zero
    /\ lastCall.rmse.raw[2] > 0 /\ lastCall.rmse.val[2] = Rat(2, 1)

\* column k of the stored 2-D array a holds one value
ConstantStored(a, k) == \A i \in 1..Rows(a) : At(a, i, k) = At(a, 1, k)

C15_SymmetricDistances ==
    (lastCall.op = "evaluate" /\ lastCall.result = "ok") =>
        LET D == lastCall.y.distances
            R == lastCall.y.R
        IN /\ \A i \in 1..n_samples, j \in 1..n_samples, k \in 1..n_dims :
                 /\ D[<<i, k, j>>].v = D[<<j, k, i>>].v
                 /\ i = j => (D[<<i, k, j>>].v = Zero /\ D[<<i, k, j>>].w = 0)
                 /\ i # j => /\ D[<<i, k, j>>].w = 1
                             /\ D[<<i, k, j>>].v = NumAbs(NumSub(At(X, i, k), At(X, j, k)))
           /\ \A i \in 1..n_samples, j \in 1..n_samples : R[<<i, j>>] = R[<<j, i>>]
           /\ \A i \in 1..n_samples :
                 /\ R[<<i, i>>].diag
                 /\ R[<<i, i>>].plus = (IF nugget.shape = <<>> THEN nugget.data[1]
                                        ELSE nugget.data[i])

\* three samples at different distances under a per-sample nugget
C15_Witness ==
    /\ lastCall.op = "evaluate" /\ lastCall.result = "ok"
    /\ n_samples = 3 /\ nugget.shape = <<3>>
    /\ lastCall.y.distances[<<3, 1, 1>>].v # Zero
    /\ lastCall.y.distances[<<3, 1, 1>>].v # lastCall.y.distances[<<2, 1, 1>>].v
    /\ lastCall.y.R[<<2, 2>>].plus = 2 * NuggetEps
    /\ lastCall.y.R[<<3, 1>>].arg # lastCall.y.R[<<2, 1>>].arg

=============================================================================
